---- MODULE Spec2Model ----
(***************************************************************************)
(* Model of the manifest-producer analysis pipeline:                       *)
(*   src/src/bin/manifest-producer.rs  elf_analysis                        *)
(*   src/src/dwarf_analysis.rs         dwarf_analysis / analyze_elf_file   *)
(*   src/src/api_detection.rs          func_search / get_name_sym /        *)
(*                                     extract_api                         *)
(* Strings are sequences of one-character strings so that strip_prefix and *)
(* str::contains are computed, not assumed.                                *)
(***************************************************************************)
EXTENDS Integers, Sequences, FiniteSets, TLC

VARIABLES
    pc,               \* position inside the modelled function
    result,           \* Result<()> of elf_analysis: "Running", "Ok" or an error kind
    loadable,         \* read_elf_file and Elf::parse succeed on the file
    stripped,         \* value of is_stripped(&elf)
    language_counts,  \* HashMap<String, u32> of analyze_elf_file
    first_seen,       \* order in which the keys of language_counts were inserted
    max_language,     \* String returned by analyze_elf_file
    lang,             \* language tag after strip_prefix("DW_LANG_")
    link,             \* value of is_static(&elf)
    stages,           \* stages of elf_analysis that have been started
    syms,             \* elf.syms, the symbol table
    rejected,         \* the names demangle_func_name returned Err for in this run
    search_result,    \* Result<Vec<API>> returned by func_search
    func_found,       \* Vec<API> held by the caller of func_search
    idx,              \* position of the per-function loop in func_found
    analysed,         \* positions whose code_section and syscall_flow both returned Ok
    failed_at,        \* position at which a per-function step returned Err (0: none)
    manifests,        \* manifest files written to the output directory
    name,             \* requested name given to extract_api
    api               \* Option<API> returned by extract_api

vars == <<pc, result, loadable, stripped, language_counts, first_seen,
          max_language, lang, link, stages, syms, rejected, search_result, func_found,
          idx, analysed, failed_at, manifests, name, api>>

----------------------------------------------------------------------------
(* Bounds *)

MaxCount == 5      \* largest per-language count of DW_AT_language attributes
MaxSyms  == 2      \* largest number of symbol-table entries
MaxFuncs == 3      \* largest discovered-function list given to extract_api
AddrBits == 4      \* width of the address arithmetic (u64 scaled down)

----------------------------------------------------------------------------
(* Strings *)

S_DW_LANG_  == <<"D","W","_","L","A","N","G","_">>
S_C99       == <<"C","9","9">>
S_C11       == <<"C","1","1">>
S_Rust      == <<"R","u","s","t">>
S_Unknown   == <<"U","n","k","n","o","w","n"," ","D","w","L","a","n","g",":"," ","9","9">>
S_Empty     == <<>>

DW_LANG_C99  == S_DW_LANG_ \o S_C99
DW_LANG_C11  == S_DW_LANG_ \o S_C11
DW_LANG_Rust == S_DW_LANG_ \o S_Rust

\* DwLang codes of the DWARF language table; 99 stands for a code gimli has no name for
LangCodes == {12, 28, 29, 99}

\* gimli::DwLang::to_string as used at dwarf_analysis.rs:68
LangToString(code) ==
    CASE code = 12 -> DW_LANG_C99
      [] code = 28 -> DW_LANG_Rust
      [] code = 29 -> DW_LANG_C11
      [] OTHER     -> S_Unknown

None == [some |-> FALSE, val |-> <<>>]
Some(v) == [some |-> TRUE, val |-> v]

\* str::strip_prefix
StripPrefix(s, p) ==
    IF Len(s) >= Len(p) /\ SubSeq(s, 1, Len(p)) = p
    THEN Some(SubSeq(s, Len(p) + 1, Len(s)))
    ELSE None

----------------------------------------------------------------------------
(* dwarf_analysis.rs *)

\* increment_language_count: *map.entry(language).or_insert(0) += 1
increment_language_count(map, language) ==
    [k \in DOMAIN map \cup {language} |->
        IF k = language
        THEN (IF language \in DOMAIN map THEN map[language] ELSE 0) + 1
        ELSE map[k]]

\* variant of DiscardC99 that removes the C99 entry without looking for Rust
DiscardC99NoRustTest(map) ==
    IF DW_LANG_C99 \in DOMAIN map
    THEN [k \in DOMAIN map \ {DW_LANG_C99} |-> map[k]]
    ELSE map

\* lines 76-78: remove the C99 entry when both C99 and Rust are keys
DiscardC99(map) ==
    IF DW_LANG_C99 \in DOMAIN map /\ DW_LANG_Rust \in DOMAIN map
    THEN [k \in DOMAIN map \ {DW_LANG_C99} |-> map[k]]
    ELSE map

\* the orders in which a HashMap with these keys can be iterated
Orders(keys) ==
    {o \in [1..Cardinality(keys) -> keys] :
        \A i, j \in 1..Cardinality(keys) : i # j => o[i] # o[j]}

\* lines 72-84: the loop that keeps the first entry with a strictly greater count
RECURSIVE MaxLoop(_, _, _, _, _)
MaxLoop(map, order, i, max_count, max_lang) ==
    IF i > Len(order) THEN max_lang
    ELSE IF map[order[i]] > max_count
         THEN MaxLoop(map, order, i + 1, map[order[i]], order[i])
         ELSE MaxLoop(map, order, i + 1, max_count, max_lang)

EmptyMap == [k \in {} |-> 0]

----------------------------------------------------------------------------
(* elf_analysis, manifest-producer.rs:25-65 *)

AllManifests == {"basic_info.json", "flow_call.json", "feature_manifest.json"}

Finish(r) == /\ pc' = "done"
             /\ result' = r

\* lines 26-27: read_elf_file(file_path)? and Elf::parse(&elf_data)?
ReadElf ==
    /\ pc = "start"
    /\ IF loadable
       THEN pc' = "is_stripped" /\ result' = result
       ELSE Finish("Load")
    /\ UNCHANGED <<loadable, stripped, language_counts, first_seen, max_language,
                   lang, link, stages, syms, rejected, search_result, func_found, idx,
                   analysed, failed_at, manifests, name, api>>

\* variant of CheckStripped without the early return
CheckStrippedIgnored ==
    /\ pc = "is_stripped"
    /\ pc' = "dwarf"
    /\ stages' = stages \cup {"dwarf_analysis"}
    /\ UNCHANGED <<result, loadable, stripped, language_counts, first_seen,
                   max_language, lang, link, syms, rejected, search_result, func_found,
                   idx, analysed, failed_at, manifests, name, api>>

\* lines 29-32: if is_stripped(&elf) { return Err(Error::DebugInfo) }
CheckStripped ==
    /\ pc = "is_stripped"
    /\ IF stripped
       THEN Finish("DebugInfo") /\ stages' = stages
       ELSE /\ pc' = "dwarf"
            /\ result' = result
            /\ stages' = stages \cup {"dwarf_analysis"}
    /\ UNCHANGED <<loadable, stripped, language_counts, first_seen, max_language,
                   lang, link, syms, rejected, search_result, func_found, idx, analysed,
                   failed_at, manifests, name, api>>

\* dwarf_analysis.rs:58-70: one entry carrying DW_AT_language in Language form.
\* Entries without the attribute, or with it in another form, leave the map as it is.
ReadLanguageAttr(code) ==
    /\ pc = "dwarf"
    /\ LET language == LangToString(code) IN
       /\ (language \in DOMAIN language_counts => language_counts[language] < MaxCount)
       /\ language_counts' = increment_language_count(language_counts, language)
       /\ first_seen' = IF language \in DOMAIN language_counts
                        THEN first_seen ELSE Append(first_seen, language)
    /\ UNCHANGED <<pc, result, loadable, stripped, max_language, lang, link, stages,
                   syms, rejected, search_result, func_found, idx, analysed, failed_at,
                   manifests, name, api>>

\* dwarf_analysis.rs:21-23,49,58-63: any of the `?` of the DWARF reader fails
DwarfReadError ==
    /\ pc = "dwarf"
    /\ Finish("Dwarf")
    /\ UNCHANGED <<loadable, stripped, language_counts, first_seen, max_language,
                   lang, link, stages, syms, rejected, search_result, func_found, idx,
                   analysed, failed_at, manifests, name, api>>

\* dwarf_analysis.rs:72-85: discard, maximum over the map in iteration order, Ok(max_language)
AnalyzeReturn ==
    /\ pc = "dwarf"
    /\ LET counts == DiscardC99(language_counts) IN
       \E order \in Orders(DOMAIN counts) :
           max_language' = MaxLoop(counts, order, 1, 0, S_Empty)
    /\ pc' = "lang_check"
    /\ UNCHANGED <<result, loadable, stripped, language_counts, first_seen, lang,
                   link, stages, syms, rejected, search_result, func_found, idx, analysed,
                   failed_at, manifests, name, api>>

\* variant of LangCheck that takes the classifier's string as the tag
LangCheckUnchecked ==
    /\ pc = "lang_check"
    /\ lang' = max_language
    /\ pc' = "linkage"
    /\ language_counts' = EmptyMap
    /\ first_seen' = <<>>
    /\ UNCHANGED <<result, loadable, stripped, max_language, link, stages, syms, rejected,
                   search_result, func_found, idx, analysed, failed_at, manifests,
                   name, api>>

\* lines 34-37: strip_prefix("DW_LANG_"), None => Err(Error::LangNotFound).
\* The map of analyze_elf_file is gone once the tag is derived.
LangCheck ==
    /\ pc = "lang_check"
    /\ LET r == StripPrefix(max_language, S_DW_LANG_) IN
       IF r.some
       THEN /\ lang' = r.val
            /\ pc' = "linkage"
            /\ result' = result
            /\ language_counts' = EmptyMap
            /\ first_seen' = <<>>
       ELSE /\ Finish("LangNotFound")
            /\ UNCHANGED <<lang, language_counts, first_seen>>
    /\ UNCHANGED <<loadable, stripped, max_language, link, stages, syms, rejected,
                   search_result, func_found, idx, analysed, failed_at, manifests,
                   name, api>>

\* lines 39-40: is_static(&elf), is_pie(&elf); the value of is_pie is not used
Linkage ==
    /\ pc = "linkage"
    /\ \E s \in BOOLEAN : link' = s
    /\ stages' = stages \cup {"is_static", "is_pie"}
    /\ pc' = "func_search"
    /\ UNCHANGED <<result, loadable, stripped, language_counts, first_seen,
                   max_language, lang, syms, rejected, search_result, func_found, idx,
                   analysed, failed_at, manifests, name, api>>

----------------------------------------------------------------------------
(* api_detection.rs *)

STT_FUNC == 2
STT_OBJECT == 1

AddrModulus == 2 ^ AddrBits
MaxAddr == AddrModulus - 1

N_turnLampOn   == <<"t","u","r","n","L","a","m","p","O","n">>
N_turnLampOff  == <<"t","u","r","n","L","a","m","p","O","f","f">>
N_writeOnDrive == <<"w","r","i","t","e","O","n","D","r","i","v","e">>
N_mangled      == <<"_","Z","N","4","l","a","m","p","2","o","n","E">>
N_demangled    == <<"l","a","m","p",":",":","o","n">>

\* elf.strtab: the offsets 1 and 2 hold a name, any other offset is out of the table
StrTab == <<N_turnLampOn, N_mangled>>
NameOffsets == {1, 2, 3}

\* goblin Strtab::get_at
StrtabGetAt(offset) ==
    IF offset \in DOMAIN StrTab THEN Some(StrTab[offset]) ELSE None

\* get_name_sym, lines 37-41
get_name_sym(symbol) == StrtabGetAt(symbol.st_name)

\* cleanup::demangle_func_name on a name it accepts
demangle_func_name(function_name, language) ==
    IF language = S_Rust /\ function_name = N_mangled THEN N_demangled
    ELSE function_name

\* API::new(name, start, end)
API_new(n, s, e) == [name |-> n, start |-> s, end |-> e]

\* the condition of line 22
IsCandidate(symbol) == symbol.st_type = STT_FUNC /\ symbol.st_shndx # 0

\* func_search, lines 19-34. rejects: the names demangle_func_name returns Err for;
\* overflow_checks: whether the build panics on an overflowing `+` (debug) or wraps (release).
RECURSIVE func_search_loop(_, _, _, _, _, _)
func_search_loop(symtab, language, rejects, overflow_checks, i, acc) ==
    IF i > Len(symtab) THEN [kind |-> "Ok", list |-> acc]
    ELSE LET symbol == symtab[i]
             n == get_name_sym(symbol)
         IN  IF IsCandidate(symbol) /\ n.some
             THEN IF n.val \in rejects
                  THEN [kind |-> "Err", list |-> <<>>]
                  ELSE IF overflow_checks /\ symbol.st_value + symbol.st_size > MaxAddr
                  THEN [kind |-> "Panic", list |-> <<>>]
                  ELSE func_search_loop(symtab, language, rejects, overflow_checks, i + 1,
                          Append(acc, API_new(demangle_func_name(n.val, language),
                                              symbol.st_value,
                                              (symbol.st_value + symbol.st_size) % AddrModulus)))
             ELSE func_search_loop(symtab, language, rejects, overflow_checks, i + 1, acc)

func_search(symtab, language, rejects, overflow_checks) ==
    func_search_loop(symtab, language, rejects, overflow_checks, 1, <<>>)

\* str::contains: the pattern occurs at some position of the text
RECURSIVE ContainsFrom(_, _, _)
ContainsFrom(text, pattern, i) ==
    IF i + Len(pattern) > Len(text) THEN FALSE
    ELSE IF SubSeq(text, i + 1, i + Len(pattern)) = pattern THEN TRUE
    ELSE ContainsFrom(text, pattern, i + 1)

Contains(text, pattern) == ContainsFrom(text, pattern, 0)

\* variant of extract_api that keeps the last match
RECURSIVE extract_api_last(_, _, _)
extract_api_last(requested, list, i) ==
    IF i < 1 THEN None
    ELSE IF Contains(list[i].name, requested) THEN Some(list[i])
    ELSE extract_api_last(requested, list, i - 1)

ExtractLast(requested, list) == extract_api_last(requested, list, Len(list))

\* extract_api, lines 43-50
RECURSIVE extract_api_loop(_, _, _)
extract_api_loop(requested, list, i) ==
    IF i > Len(list) THEN None
    ELSE IF Contains(list[i].name, requested) THEN Some(list[i])
    ELSE extract_api_loop(requested, list, i + 1)

extract_api(requested, list) == extract_api_loop(requested, list, 1)

----------------------------------------------------------------------------
(* Inputs *)

SeqsUpTo(S, n) == UNION {[1..k -> S] : k \in 0..n}

Sym(t, x, n, v, s) ==
    [st_type |-> t, st_shndx |-> x, st_name |-> n, st_value |-> v, st_size |-> s]

\* (st_value, st_size): an ordinary range, a zero-size symbol, a range that ends
\* at the top of the address space, and one whose sum does not fit
Ranges == {<<1, 2>>, <<1, 0>>, <<MaxAddr - 1, 1>>, <<MaxAddr, 1>>}

Symbols == {Sym(t, x, n, r[1], r[2]) :
               t \in {STT_FUNC, STT_OBJECT}, x \in {0, 1}, n \in NameOffsets, r \in Ranges}

SymTables == SeqsUpTo(Symbols, MaxSyms)

\* the symbol tables the whole pipeline is run on
PipeSymbols == {Sym(STT_FUNC, 1, 1, 1, 2), Sym(STT_FUNC, 1, 2, 1, 0),
                Sym(STT_FUNC, 0, 1, 1, 2), Sym(STT_OBJECT, 1, 1, 1, 2),
                Sym(STT_FUNC, 1, 3, 1, 2), Sym(STT_FUNC, 1, 1, MaxAddr, 1)}

PipeSymTables == SeqsUpTo(PipeSymbols, MaxSyms)

ResolvableNames == {StrTab[i] : i \in DOMAIN StrTab}

ApiPool == {API_new(N_turnLampOn, 1, 3), API_new(N_turnLampOff, 3, 5),
            API_new(N_writeOnDrive, 5, 6)}

Requests == {<<"L","a","m","p">>, <<"l","a","m","p">>, <<"O","n">>, <<"O","f","f">>,
             N_writeOnDrive, <<"W","e","b","c","a","m">>, <<>>}

----------------------------------------------------------------------------
(* elf_analysis, continued: manifest-producer.rs:42-65 *)

\* line 42: func_search(&elf, &lang)? on a symbol table drawn from tables
FuncSearchOn(tables) ==
    /\ pc = "func_search"
    /\ \E symtab \in tables, rejects \in SUBSET ResolvableNames, overflow_checks \in BOOLEAN :
         LET r == func_search(symtab, lang, rejects, overflow_checks) IN
         /\ syms' = symtab
         /\ rejected' = rejects
         /\ search_result' = r
         /\ IF r.kind = "Ok"
            THEN /\ func_found' = r.list
                 /\ pc' = "empty_check"
                 /\ result' = result
            ELSE /\ func_found' = func_found
                 /\ Finish(IF r.kind = "Err" THEN "Demangle" ELSE "Panic")
    /\ stages' = stages \cup {"func_search"}
    /\ UNCHANGED <<loadable, stripped, language_counts, first_seen, max_language,
                   lang, link, idx, analysed, failed_at, manifests, name, api>>

FuncSearch == FuncSearchOn(PipeSymTables)

\* variant of EmptyCheck without the is_empty test
EmptyCheckSkipped ==
    /\ pc = "empty_check"
    /\ idx' = 1
    /\ pc' = IF func_found = <<>> THEN "return" ELSE "code_section"
    /\ UNCHANGED <<result, loadable, stripped, language_counts, first_seen,
                   max_language, lang, link, stages, syms, rejected, search_result, func_found,
                   analysed, failed_at, manifests, name, api>>

\* lines 43-45: if func_found.is_empty() { return Err(Error::FuncListEmpty) }
EmptyCheck ==
    /\ pc = "empty_check"
    /\ IF func_found = <<>>
       THEN Finish("FuncListEmpty") /\ idx' = idx
       ELSE /\ pc' = "code_section"
            /\ result' = result
            /\ idx' = 1
    /\ UNCHANGED <<loadable, stripped, language_counts, first_seen, max_language,
                   lang, link, stages, syms, rejected, search_result, func_found, analysed,
                   failed_at, manifests, name, api>>

\* the position of the loop after the function at idx
AfterFunction == IF idx + 1 > Len(func_found) THEN "return" ELSE "code_section"

\* variant of CodeSection that skips the function on Err instead of returning
CodeSectionSkipOnErr ==
    /\ pc = "code_section"
    /\ stages' = stages \cup {"code_section"}
    /\ \E ok \in BOOLEAN :
         IF ok
         THEN pc' = "syscall_flow" /\ UNCHANGED <<idx, failed_at>>
         ELSE pc' = AfterFunction /\ idx' = idx + 1 /\ failed_at' = idx
    /\ UNCHANGED <<result, loadable, stripped, language_counts, first_seen,
                   max_language, lang, link, syms, rejected, search_result, func_found,
                   analysed, manifests, name, api>>

\* line 47: let sys = code_section(&elf, &func, &elf_data, link)?
CodeSection ==
    /\ pc = "code_section"
    /\ stages' = stages \cup {"code_section"}
    /\ \E ok \in BOOLEAN :
         IF ok
         THEN pc' = "syscall_flow" /\ UNCHANGED <<result, failed_at>>
         ELSE Finish("CodeSection") /\ failed_at' = idx
    /\ UNCHANGED <<loadable, stripped, language_counts, first_seen, max_language,
                   lang, link, syms, rejected, search_result, func_found, idx, analysed,
                   manifests, name, api>>

\* line 48: syscall_flow(&mut func, sys, &lang)?
SyscallFlow ==
    /\ pc = "syscall_flow"
    /\ stages' = stages \cup {"syscall_flow"}
    /\ \E ok \in BOOLEAN :
         IF ok
         THEN /\ analysed' = analysed \cup {idx}
              /\ idx' = idx + 1
              /\ pc' = AfterFunction
              /\ UNCHANGED <<result, failed_at>>
         ELSE /\ Finish("SyscallFlow")
              /\ failed_at' = idx
              /\ UNCHANGED <<analysed, idx>>
    /\ UNCHANGED <<loadable, stripped, language_counts, first_seen, max_language,
                   lang, link, syms, rejected, search_result, func_found, manifests, name, api>>

\* lines 51-64: the matching and the manifest calls are commented out; Ok(())
Return ==
    /\ pc = "return"
    /\ Finish("Ok")
    /\ UNCHANGED <<loadable, stripped, language_counts, first_seen, max_language,
                   lang, link, stages, syms, rejected, search_result, func_found, idx, analysed,
                   failed_at, manifests, name, api>>

NoResult == [kind |-> "None", list |-> <<>>]

Init ==
    /\ pc = "start"
    /\ result = "Running"
    /\ loadable \in BOOLEAN
    /\ stripped \in BOOLEAN
    /\ language_counts = EmptyMap
    /\ first_seen = <<>>
    /\ max_language = S_Empty
    /\ lang = S_Empty
    /\ link = FALSE
    /\ stages = {}
    /\ syms = <<>>
    /\ rejected = {}
    /\ search_result = NoResult
    /\ func_found = <<>>
    /\ idx = 0
    /\ analysed = {}
    /\ failed_at = 0
    /\ manifests = {}
    /\ name = <<>>
    /\ api = None

Next ==
    \/ ReadElf
    \/ CheckStripped
    \/ \E code \in LangCodes : ReadLanguageAttr(code)
    \/ DwarfReadError
    \/ AnalyzeReturn
    \/ LangCheck
    \/ Linkage
    \/ FuncSearch
    \/ EmptyCheck
    \/ CodeSection
    \/ SyscallFlow
    \/ Return

Spec == Init /\ [][Next]_vars

----------------------------------------------------------------------------
(* func_search on its own, over every symbol table of the bound *)

FuncSearchAny == FuncSearchOn(SymTables)

InitSearch ==
    /\ pc = "func_search"
    /\ result = "Running"
    /\ loadable = TRUE
    /\ stripped = FALSE
    /\ language_counts = EmptyMap
    /\ first_seen = <<>>
    /\ max_language \in {DW_LANG_C99, DW_LANG_Rust}
    /\ lang = StripPrefix(max_language, S_DW_LANG_).val
    /\ link \in BOOLEAN
    /\ stages = {"dwarf_analysis", "is_static", "is_pie"}
    /\ syms = <<>>
    /\ rejected = {}
    /\ search_result = NoResult
    /\ func_found = <<>>
    /\ idx = 0
    /\ analysed = {}
    /\ failed_at = 0
    /\ manifests = {}
    /\ name = <<>>
    /\ api = None

NextSearch == FuncSearchAny

SpecSearch == InitSearch /\ [][NextSearch]_vars

----------------------------------------------------------------------------
(* extract_api on its own *)

ExtractApi ==
    /\ pc = "extract_api"
    /\ api' = extract_api(name, func_found)
    /\ pc' = "extracted"
    /\ UNCHANGED <<result, loadable, stripped, language_counts, first_seen,
                   max_language, lang, link, stages, syms, rejected, search_result, func_found,
                   idx, analysed, failed_at, manifests, name>>

InitExtract ==
    /\ pc = "extract_api"
    /\ result = "Running"
    /\ loadable = TRUE
    /\ stripped = FALSE
    /\ language_counts = EmptyMap
    /\ first_seen = <<>>
    /\ max_language = S_Empty
    /\ lang = S_Empty
    /\ link = FALSE
    /\ stages = {}
    /\ syms = <<>>
    /\ rejected = {}
    /\ search_result = NoResult
    /\ func_found \in SeqsUpTo(ApiPool, MaxFuncs)
    /\ idx = 0
    /\ analysed = {}
    /\ failed_at = 0
    /\ manifests = {}
    /\ name \in Requests
    /\ api = None

NextExtract == ExtractApi

SpecExtract == InitExtract /\ [][NextExtract]_vars

----------------------------------------------------------------------------
(* Properties *)

PerFunctionErrors == {"CodeSection", "SyscallFlow"}

StrippedAborts ==
    (loadable /\ stripped) =>
        /\ stages = {}
        /\ pc \in {"start", "is_stripped", "done"}
        /\ result \in {"Running", "DebugInfo"}
        /\ (pc = "done" => result = "DebugInfo")

StrippedWitness ==
    /\ loadable
    /\ stripped
    /\ pc = "done"
    /\ result = "DebugInfo"

\* C3: when func_search returns an empty list, elf_analysis ends with
\* Error::FuncListEmpty before any code_section or syscall_flow call and never
\* with success; when the list is not empty this error is never raised.
EmptyListAborts ==
    /\ (search_result.kind = "Ok" /\ search_result.list = <<>> /\ pc # "empty_check") =>
           /\ pc = "done"
           /\ result = "FuncListEmpty"
           /\ stages \cap {"code_section", "syscall_flow"} = {}
    /\ result = "FuncListEmpty" =>
           (search_result.kind = "Ok" /\ search_result.list = <<>>)
    /\ (search_result.kind = "Ok" /\ search_result.list # <<>>) =>
           result # "FuncListEmpty"

EmptyListWitness ==
    /\ pc = "done"
    /\ result = "FuncListEmpty"
    /\ syms # <<>>

\* the symbols func_search is to describe: function type, defined, name in the string table
Wanted(symbol) ==
    /\ symbol.st_type = STT_FUNC
    /\ symbol.st_shndx # 0
    /\ symbol.st_name \in DOMAIN StrTab

ExpectedDescriptors(symtab, language) ==
    LET w == SelectSeq(symtab, Wanted) IN
    [i \in 1..Len(w) |->
        [name  |-> demangle_func_name(StrTab[w[i].st_name], language),
         start |-> w[i].st_value,
         end   |-> w[i].st_value + w[i].st_size]]

NormalizationSucceeds ==
    \A i \in 1..Len(syms) : Wanted(syms[i]) => StrTab[syms[i].st_name] \notin rejected

\* C4: when name normalization succeeds for every candidate, func_search returns,
\* in symbol-table order, exactly one descriptor per symbol that is a defined
\* function with a resolvable name, with start = st_value and end = st_value + st_size.
FuncSearchExact ==
    (search_result # NoResult /\ NormalizationSucceeds) =>
        /\ search_result.kind = "Ok"
        /\ search_result.list = ExpectedDescriptors(syms, lang)

\* the key that was inserted first among those of the greatest count
Greatest(map) == {k \in DOMAIN map : \A j \in DOMAIN map : map[j] <= map[k]}

FirstSeenGreatest(map, seen) ==
    IF DOMAIN map = {} THEN S_Empty
    ELSE seen[CHOOSE i \in 1..Len(seen) :
                 /\ seen[i] \in Greatest(map)
                 /\ \A j \in 1..(i - 1) : seen[j] \notin Greatest(map)]

KeptCounts ==
    IF DW_LANG_C99 \in DOMAIN language_counts /\ DW_LANG_Rust \in DOMAIN language_counts
    THEN [k \in DOMAIN language_counts \ {DW_LANG_C99} |-> language_counts[k]]
    ELSE language_counts

\* C5: the classifier returns the language of the greatest count (after the
\* C99/Rust discard) and, among several of the greatest count, the one seen first
\* in the metadata, so that the result is a function of the input.
ClassifierFirstSeen ==
    pc = "lang_check" => max_language = FirstSeenGreatest(KeptCounts, first_seen)

FiveEach == [k \in {DW_LANG_C99, DW_LANG_Rust} |-> 5]

\* C6: when both C99 and Rust are counted, C99 is discarded before the maximum is
\* taken, whatever the counts; {C99: 5, Rust: 5} gives Rust; C99 is never the
\* result when Rust was counted; without Rust the C99 entry takes part.
C99Discarded ==
    pc = "lang_check" =>
        LET c == language_counts
            others == DOMAIN c \ {DW_LANG_C99}
        IN  /\ (DW_LANG_C99 \in DOMAIN c /\ DW_LANG_Rust \in DOMAIN c) =>
                   /\ max_language \in others
                   /\ \A k \in others : c[k] <= c[max_language]
            /\ c = FiveEach => max_language = DW_LANG_Rust
            /\ DW_LANG_Rust \in DOMAIN c => max_language # DW_LANG_C99
            /\ (DW_LANG_C99 \in DOMAIN c /\ DW_LANG_Rust \notin DOMAIN c) =>
                   /\ max_language \in DOMAIN c
                   /\ c[max_language] >= c[DW_LANG_C99]
                   /\ (\A k \in others : c[k] < c[DW_LANG_C99]) => max_language = DW_LANG_C99

C99DiscardedWitness ==
    /\ pc = "lang_check"
    /\ language_counts = FiveEach
    /\ max_language = DW_LANG_Rust

HasDwLangPrefix(s) ==
    /\ Len(s) >= Len(S_DW_LANG_)
    /\ \A i \in 1..Len(S_DW_LANG_) : s[i] = S_DW_LANG_[i]

ClassifierReturned ==
    /\ "dwarf_analysis" \in stages
    /\ pc \notin {"dwarf", "lang_check"}
    /\ result # "Dwarf"

\* C7: for a binary that is not stripped, when the language counts are empty the
\* classifier's result does not start with "DW_LANG_", and for every classifier
\* result that does not start with "DW_LANG_" the run ends with
\* Error::LangNotFound and neither function discovery nor the per-function
\* analysis is started.
LangNotFoundAborts ==
    /\ (pc = "lang_check" /\ language_counts = EmptyMap) => ~HasDwLangPrefix(max_language)
    /\ (ClassifierReturned /\ ~HasDwLangPrefix(max_language)) =>
           /\ pc = "done"
           /\ result = "LangNotFound"
           /\ stages = {"dwarf_analysis"}
    /\ result = "LangNotFound" => ~stripped

LangNotFoundWitness ==
    /\ pc = "done"
    /\ result = "LangNotFound"
    /\ language_counts = EmptyMap

IsSubstring(text, pattern) ==
    \E a \in 0..Len(text) : \E b \in a..Len(text) : SubSeq(text, a + 1, b) = pattern

Matching == {i \in 1..Len(func_found) : IsSubstring(func_found[i].name, name)}

LampScenario ==
    /\ name = <<"L","a","m","p">>
    /\ func_found = <<API_new(N_turnLampOn, 1, 3), API_new(N_turnLampOff, 3, 5),
                      API_new(N_writeOnDrive, 5, 6)>>

\* C8: extract_api returns the first descriptor, in discovery order, whose name
\* contains the requested name as a case-sensitive substring, and None exactly
\* when no name contains it; "Lamp" against [turnLampOn, turnLampOff,
\* writeOnDrive] returns turnLampOn.
ExtractFirstMatch ==
    pc = "extracted" =>
        /\ (Matching = {}) <=> (api = None)
        /\ Matching # {} =>
               /\ api.some
               /\ \E i \in Matching :
                      /\ \A j \in Matching : i <= j
                      /\ api.val = func_found[i]
        /\ LampScenario => (api.some /\ api.val.name = N_turnLampOn)

ExtractFirstMatchWitness ==
    /\ pc = "extracted"
    /\ LampScenario
    /\ api.some
    /\ api.val.name = N_turnLampOn

\* C9: whenever elf_analysis returns success, basic_info.json, flow_call.json and
\* feature_manifest.json have been produced in the output directory.
SuccessEmitsManifests ==
    result = "Ok" => manifests = AllManifests

\* C10: every descriptor func_search produces has end >= start, whatever st_value
\* and st_size are, also when their sum exceeds the greatest address.
DescriptorRangeOrdered ==
    \A i \in 1..Len(search_result.list) :
        search_result.list[i].end >= search_result.list[i].start

====
